---------------------------- MODULE Spec2Model ----------------------------
(***************************************************************************)
(* Exercise monitoring vest (EXERCISE_VEST_MAIN.ino): the multi-rate       *)
(* scheduler loop() and the three feature extractors ECGProcessor,         *)
(* RespiratoryProcessor and GSRProcessor, for the Arduino Mega 2560        *)
(* (int = 16 bits, long and unsigned long = 32 bits).                      *)
(* Also respiratory_band.ino, the stand-alone two-sensor LED bar sketch.    *)
(***************************************************************************)
EXTENDS Integers, Sequences, FiniteSets, TLC

VARIABLES
  clock,          \* the value millis() returns
  pinLoPlus,      \* level of ECG_LO_PLUS at the latest digitalRead
  pinLoMinus,     \* level of ECG_LO_MINUS at the latest digitalRead
  ecg,            \* ecgProc
  ecgRef,         \* a second ECGProcessor fed the same train without the spurious peak
  resp,           \* respProc
  respRef,        \* a second RespiratoryProcessor fed the same samples as respProc
  gsr,            \* gsrProc
  lastECGSample, lastRespSample, lastGSRSample, lastLCDUpdate, lastDataLog,
  displayMode,
  lcd,            \* what updateLCD() printed last
  dataFile,       \* rows appended to VITALS.CSV
  loopNow,        \* the local now of the latest pass of loop()
  sessionStartTime,
  pc,             \* where the sketch is: in setup(), in setup()'s while(1), or in loop()
  fired,          \* the tasks the latest pass of loop() ran, in the order they ran
  calls,          \* number of operations performed so far (bounded)
  wave,           \* the environment's signal generator
  band            \* respiratory_band.ino: its globals and the levels of its LED pins

\* the state of loop() and of the two consumers
schedVars == <<lastECGSample, lastRespSample, lastGSRSample, lastLCDUpdate, lastDataLog,
               displayMode, lcd, dataFile, loopNow, sessionStartTime, pc, fired>>

vars == <<clock, pinLoPlus, pinLoMinus, ecg, ecgRef, resp, respRef, gsr, schedVars, calls,
          wave, band>>

-----------------------------------------------------------------------------
(* Machine arithmetic of the target *)

Pow16 == 2^16

\* An unsigned long (32 bits) is kept as its two 16-bit halves <<high, low>>,
\* so that arithmetic modulo 2^32 is exact.
\* UL(n): the unsigned long of 0 <= n < 2^31
UL(n) == <<n \div Pow16, n % Pow16>>

\* a + n modulo 2^32, for 0 <= n < 2^30
ULAdd(a, n) ==
  LET low == a[2] + n
  IN <<(a[1] + (low \div Pow16)) % Pow16, low % Pow16>>

\* a - b modulo 2^32
ULSub(a, b) ==
  LET low == a[2] - b[2]
      borrow == IF low < 0 THEN 1 ELSE 0
  IN <<(a[1] - b[1] - borrow) % Pow16, low % Pow16>>

\* a >= n, for an unsigned long a and 0 <= n < 2^31
ULGe(a, n) ==
  \/ a[1] > n \div Pow16
  \/ a[1] = n \div Pow16 /\ a[2] >= n % Pow16

\* a > 0
ULPos(a) == a[1] > 0 \/ a[2] > 0

\* a % m, for 0 < m < 2^16
ULMod(a, m) == ((a[1] * (Pow16 % m)) + a[2]) % m

\* conversion of a value to the 16-bit int (two's complement, modulo 2^16)
ToInt16(x) == LET m == x % Pow16 IN IF m >= 32768 THEN m - Pow16 ELSE m

FitsInt16(x) == x >= -32768 /\ x <= 32767

\* C integer division truncates toward zero
Quot(a, b) ==
  IF (a >= 0) = (b > 0) THEN (IF a >= 0 THEN a ELSE -a) \div (IF b > 0 THEN b ELSE -b)
  ELSE -((IF a >= 0 THEN a ELSE -a) \div (IF b > 0 THEN b ELSE -b))

\* (int)(a + r * num/10) for the double expressions a + (r * 0.6), a - (r * 0.8):
\* the value of a*10 + r*num tenths, truncated toward zero
TruncTenths(t) == Quot(t, 10)

\* (int)sqrt(x) for x >= 0
RECURSIVE ISqrtFrom(_, _)
ISqrtFrom(x, k) == IF (k + 1) * (k + 1) > x THEN k ELSE ISqrtFrom(x, k + 1)
ISqrt(x) == ISqrtFrom(x, 0)

\* outcome of a signed 16-bit operation whose true result is v: defined when it
\* fits; on overflow the behaviour is undefined and the build either wraps
\* (16-bit registers) or keeps the true value (wider evaluation); junk is the
\* int an undefined conversion or division leaves behind
UBOutcomes == [ovf : {"wrap", "wide"}, junk : {0, -1}]
Int16Op(v, ub) == IF FitsInt16(v) \/ ub.ovf = "wide" THEN v ELSE ToInt16(v)

RECURSIVE SumTo(_, _)
SumTo(f, n) == IF n = 0 THEN 0 ELSE f[n - 1] + SumTo(f, n - 1)

-----------------------------------------------------------------------------
(* ECGProcessor *)

ECG_BUFFER_SIZE == 100
RR_SLOTS == 10
RR_MIN == 300
RR_MAX == 2000

ECGInit ==
  [ ecgBuffer |-> [i \in 0..(ECG_BUFFER_SIZE - 1) |-> 0],
    bufferIndex |-> 0,
    lastPeakTime |-> UL(0),
    rrIntervals |-> [i \in 0..(RR_SLOTS - 1) |-> 0],
    rrIndex |-> 0,
    currentHeartRate |-> 0,
    peakThreshold |-> 600,
    signalMin |-> 1023,
    signalMax |-> 0,
    leadOff |-> FALSE,
    inPeak |-> FALSE,
    peakValue |-> 0 ]

\* the early return of processECGSample when a lead is off
LeadOffAllFlags(e) ==
  [e EXCEPT !.leadOff = TRUE, !.currentHeartRate = 0, !.inPeak = FALSE]
LeadOffKeepsRate(e) == [e EXCEPT !.leadOff = TRUE]
LeadOffReturn(e) == [e EXCEPT !.leadOff = TRUE, !.currentHeartRate = 0]

LeadsDisconnected(loPlus, loMinus) == loPlus = 1 \/ loMinus = 1

\* the validity test on a candidate RR interval
RRValid(rrInterval) == rrInterval > RR_MIN /\ rrInterval < RR_MAX

\* populated slots of the interval ring
RRPopulated(rr) == {i \in 0..(RR_SLOTS - 1) : rr[i] > 0}

\* the averaging loop and the rate computed from it; rate is the old rate
RateOverAllSlots(rr, rate) ==
  LET avgRR == Quot(SumTo(rr, RR_SLOTS), RR_SLOTS)
  IN IF avgRR > 0 THEN ToInt16(Quot(60000, avgRR)) ELSE rate
RateFromRing(rr, rate) ==
  LET sum == SumTo([i \in 0..(RR_SLOTS - 1) |-> IF rr[i] > 0 THEN rr[i] ELSE 0], RR_SLOTS)
      count == Cardinality(RRPopulated(rr))
  IN IF count > 0 THEN ToInt16(Quot(60000, Quot(sum, count))) ELSE rate

\* the 10-slot ring's mean over its populated slots, as integers
MeanPopulated(rr) ==
  Quot(SumTo([i \in 0..(RR_SLOTS - 1) |-> IF i \in RRPopulated(rr) THEN rr[i] ELSE 0],
             RR_SLOTS),
       Cardinality(RRPopulated(rr)))

\* the candidate RR interval: int rrInterval = now - lastPeakTime
RRCandidate(now, lastPeakTime) == ToInt16(ULSub(now, lastPeakTime)[2])

\* buffer push and min/max tracking
ECGPushKeepFlag(e, rawValue) ==
  [e EXCEPT !.ecgBuffer = [@ EXCEPT ![e.bufferIndex] = rawValue],
            !.bufferIndex = (e.bufferIndex + 1) % ECG_BUFFER_SIZE,
            !.signalMin = IF rawValue < @ THEN rawValue ELSE @,
            !.signalMax = IF rawValue > @ THEN rawValue ELSE @]
ECGPush(e, rawValue) ==
  [e EXCEPT !.leadOff = FALSE,
            !.ecgBuffer = [@ EXCEPT ![e.bufferIndex] = rawValue],
            !.bufferIndex = (e.bufferIndex + 1) % ECG_BUFFER_SIZE,
            !.signalMin = IF rawValue < @ THEN rawValue ELSE @,
            !.signalMax = IF rawValue > @ THEN rawValue ELSE @]

\* threshold recomputation when the cursor wraps
ECGThresholdHalf(e) ==
  IF e.bufferIndex = 0
  THEN LET range == e.signalMax - e.signalMin
           newMin == TruncTenths(e.signalMax * 10 - range * 8)
       IN [e EXCEPT !.peakThreshold = TruncTenths(e.signalMin * 10 + range * 5),
                    !.signalMin = newMin,
                    !.signalMax = TruncTenths(newMin * 10 + range * 8)]
  ELSE e
ECGThreshold(e) ==
  IF e.bufferIndex = 0
  THEN LET range == e.signalMax - e.signalMin
           newMin == TruncTenths(e.signalMax * 10 - range * 8)
       IN [e EXCEPT !.peakThreshold = TruncTenths(e.signalMin * 10 + range * 6),
                    !.signalMin = newMin,
                    !.signalMax = TruncTenths(newMin * 10 + range * 8)]
  ELSE e

\* the falling edge: candidate interval, validity test, ring update, rate
ECGPeakExitKeepOnReject(e, now) ==
  LET rrInterval == RRCandidate(now, e.lastPeakTime)
      admitted == ULPos(e.lastPeakTime) /\ RRValid(rrInterval)
      ring == [e.rrIntervals EXCEPT ![e.rrIndex] = rrInterval]
  IN IF admitted
     THEN [e EXCEPT !.inPeak = FALSE,
                    !.rrIntervals = ring,
                    !.rrIndex = (e.rrIndex + 1) % RR_SLOTS,
                    !.currentHeartRate = RateFromRing(ring, e.currentHeartRate),
                    !.lastPeakTime = now]
     ELSE [e EXCEPT !.inPeak = FALSE]
ECGPeakExit(e, now) ==
  LET rrInterval == RRCandidate(now, e.lastPeakTime)
      admitted == ULPos(e.lastPeakTime) /\ RRValid(rrInterval)
      ring == [e.rrIntervals EXCEPT ![e.rrIndex] = rrInterval]
  IN IF admitted
     THEN [e EXCEPT !.inPeak = FALSE,
                    !.rrIntervals = ring,
                    !.rrIndex = (e.rrIndex + 1) % RR_SLOTS,
                    !.currentHeartRate = RateFromRing(ring, e.currentHeartRate),
                    !.lastPeakTime = now]
     ELSE [e EXCEPT !.inPeak = FALSE, !.lastPeakTime = now]

\* R-peak detection
ECGDetect(e, rawValue, now) ==
  IF rawValue > e.peakThreshold /\ ~e.inPeak
  THEN [e EXCEPT !.inPeak = TRUE, !.peakValue = rawValue]
  ELSE IF e.inPeak
       THEN IF rawValue > e.peakValue THEN [e EXCEPT !.peakValue = rawValue]
            ELSE IF rawValue < e.peakThreshold THEN ECGPeakExit(e, now)
            ELSE e
       ELSE e

\* processECGSample(rawValue) with the lead pins reading loPlus, loMinus and
\* millis() returning now
ProcessECGSample(e, rawValue, loPlus, loMinus, now) ==
  IF LeadsDisconnected(loPlus, loMinus)
  THEN LeadOffReturn(e)
  ELSE ECGDetect(ECGThreshold(ECGPush(e, rawValue)), rawValue, now)

getHeartRate(e) == IF e.leadOff THEN 0 ELSE e.currentHeartRate
ECGgetRawValueAtCursor(e) == e.ecgBuffer[e.bufferIndex]
isLeadOff(e) == e.leadOff
ECGgetRawValue(e) == e.ecgBuffer[(e.bufferIndex + ECG_BUFFER_SIZE - 1) % ECG_BUFFER_SIZE]

-----------------------------------------------------------------------------
(* RespiratoryProcessor *)

RESP_BUFFER_SIZE == 60
BREATH_SLOTS == 10
BREATH_MIN == 1500
BREATH_MAX == 10000

RespInit ==
  [ respBuffer |-> [i \in 0..(RESP_BUFFER_SIZE - 1) |-> 0],
    bufferIndex |-> 0,
    currentState |-> "HOLD",
    lastState |-> "HOLD",
    lastBreathTime |-> UL(0),
    breathIntervals |-> [i \in 0..(BREATH_SLOTS - 1) |-> 0],
    breathIndex |-> 0,
    currentBreathRate |-> 0,
    baseline |-> 512,
    inhaleThreshold |-> 530,
    exhaleThreshold |-> 494 ]

RespPush(r, rawValue) ==
  [r EXCEPT !.respBuffer = [@ EXCEPT ![r.bufferIndex] = rawValue],
            !.bufferIndex = (r.bufferIndex + 1) % RESP_BUFFER_SIZE]

\* baseline and thresholds from the whole buffer, when the cursor wraps
RespRecompute(r, ub) ==
  IF r.bufferIndex = 0
  THEN LET mean == Quot(SumTo(r.respBuffer, RESP_BUFFER_SIZE), RESP_BUFFER_SIZE)
           sq == [i \in 0..(RESP_BUFFER_SIZE - 1) |->
                    Int16Op((r.respBuffer[i] - mean) * (r.respBuffer[i] - mean), ub)]
           variance == SumTo(sq, RESP_BUFFER_SIZE)
           meanSq == Quot(variance, RESP_BUFFER_SIZE)
           stdDev == IF meanSq >= 0 THEN ISqrt(meanSq) ELSE ub.junk
       IN [r EXCEPT !.baseline = mean,
                    !.inhaleThreshold = Quot(2 * mean + stdDev, 2),
                    !.exhaleThreshold = Quot(2 * mean - stdDev, 2)]
  ELSE r

\* the phase of a sample under the thresholds in force
RespClassify(rawValue, inhaleThreshold, exhaleThreshold) ==
  IF rawValue > inhaleThreshold THEN "INHALE"
  ELSE IF rawValue < exhaleThreshold THEN "EXHALE"
  ELSE "HOLD"

\* the breath-cycle test
BreathEventAnyRise(currentState, lastState) ==
  currentState = "INHALE" /\ lastState # "INHALE"
BreathEvent(currentState, lastState) ==
  currentState = "INHALE" /\ lastState = "EXHALE"

BreathValid(breathInterval) ==
  breathInterval > BREATH_MIN /\ breathInterval < BREATH_MAX

BreathPopulated(bi) == {i \in 0..(BREATH_SLOTS - 1) : bi[i] > 0}

BreathRateFromRing(bi, rate, ub) ==
  LET sum == Int16Op(SumTo([i \in 0..(BREATH_SLOTS - 1) |-> IF bi[i] > 0 THEN bi[i] ELSE 0],
                           BREATH_SLOTS), ub)
      count == Cardinality(BreathPopulated(bi))
      avgBreath == Quot(sum, count)
  IN IF count > 0
     THEN (IF avgBreath # 0 THEN ToInt16(Quot(60000, avgBreath)) ELSE ub.junk)
     ELSE rate

\* the step taken on a breath-cycle event
RespBreath(r, now, ub) ==
  LET breathInterval == ToInt16(ULSub(now, r.lastBreathTime)[2])
      admitted == ULPos(r.lastBreathTime) /\ BreathValid(breathInterval)
      ring == [r.breathIntervals EXCEPT ![r.breathIndex] = breathInterval]
  IN IF admitted
     THEN [r EXCEPT !.breathIntervals = ring,
                    !.breathIndex = (r.breathIndex + 1) % BREATH_SLOTS,
                    !.currentBreathRate = BreathRateFromRing(ring, r.currentBreathRate, ub),
                    !.lastBreathTime = now]
     ELSE [r EXCEPT !.lastBreathTime = now]

\* processRespSample(rawValue) with millis() returning now
ProcessRespSampleSticky(r, rawValue, now, ub) ==
  LET r1 == RespRecompute(RespPush(r, rawValue), ub)
      r2 == [r1 EXCEPT !.lastState = r1.currentState,
                       !.currentState =
                          IF r1.currentState = "INHALE" /\ rawValue >= r1.baseline
                          THEN "INHALE"
                          ELSE RespClassify(rawValue, r1.inhaleThreshold,
                                            r1.exhaleThreshold)]
  IN IF BreathEvent(r2.currentState, r2.lastState) THEN RespBreath(r2, now, ub) ELSE r2
ProcessRespSample(r, rawValue, now, ub) ==
  LET r1 == RespRecompute(RespPush(r, rawValue), ub)
      r2 == [r1 EXCEPT !.lastState = r1.currentState,
                       !.currentState = RespClassify(rawValue, r1.inhaleThreshold,
                                                     r1.exhaleThreshold)]
  IN IF BreathEvent(r2.currentState, r2.lastState) THEN RespBreath(r2, now, ub) ELSE r2

getBreathRate(r) == r.currentBreathRate
RespgetRawValue(r) ==
  r.respBuffer[(r.bufferIndex + RESP_BUFFER_SIZE - 1) % RESP_BUFFER_SIZE]
getStateString(r) ==
  IF r.currentState = "INHALE" THEN "INH"
  ELSE IF r.currentState = "EXHALE" THEN "EXH" ELSE "HLD"

-----------------------------------------------------------------------------
(* GSRProcessor *)

GSR_BUFFER_SIZE == 30
CALIBRATION_TIME == 50
BASELINE_PERIOD == 60000

GSRInit ==
  [ gsrBuffer |-> [i \in 0..(GSR_BUFFER_SIZE - 1) |-> 0],
    bufferIndex |-> 0,
    baseline |-> 0,
    smoothedValue |-> 0,
    sweatLevel |-> 0,
    calibrated |-> FALSE,
    calibrationSamples |-> 0 ]

\* buffer push and moving average
GSRSmoothSkip(g, rawValue) ==
  LET buf == [g.gsrBuffer EXCEPT ![g.bufferIndex] = rawValue]
  IN [g EXCEPT !.gsrBuffer = buf,
               !.bufferIndex = (g.bufferIndex + 2) % GSR_BUFFER_SIZE,
               !.smoothedValue = Quot(SumTo(buf, GSR_BUFFER_SIZE), GSR_BUFFER_SIZE)]
GSRSmooth(g, rawValue) ==
  LET buf == [g.gsrBuffer EXCEPT ![g.bufferIndex] = rawValue]
  IN [g EXCEPT !.gsrBuffer = buf,
               !.bufferIndex = (g.bufferIndex + 1) % GSR_BUFFER_SIZE,
               !.smoothedValue = Quot(SumTo(buf, GSR_BUFFER_SIZE), GSR_BUFFER_SIZE)]

\* the test that ends the calibration phase
CalibrationLate(calibrationSamples) == calibrationSamples > CALIBRATION_TIME
CalibrationDone(calibrationSamples) == calibrationSamples >= CALIBRATION_TIME

\* the calibration branch, which returns before any classification
GSRCalibrate(g) ==
  LET n == g.calibrationSamples + 1
  IN IF CalibrationDone(n)
     THEN [g EXCEPT !.calibrationSamples = n, !.baseline = g.smoothedValue,
                    !.calibrated = TRUE]
     ELSE [g EXCEPT !.calibrationSamples = n]

\* the four bands of delta = smoothedValue - baseline
SweatBandClosed(delta) ==
  IF delta <= 10 THEN 0 ELSE IF delta <= 30 THEN 1 ELSE IF delta <= 60 THEN 2 ELSE 3
SweatBand(delta) ==
  IF delta < 10 THEN 0 ELSE IF delta < 30 THEN 1 ELSE IF delta < 60 THEN 2 ELSE 3

\* the slow baseline adaptation, (baseline * 99 + smoothedValue) / 100 in int
GSRNudge(baseline, smoothedValue, ub) ==
  Quot(Int16Op(Int16Op(baseline * 99, ub) + smoothedValue, ub), 100)

\* the test that guards the adaptation: millis() % 60000 == 0
NudgeDue(now) == ULMod(now, BASELINE_PERIOD) = 0

\* whether a call at time now on processor g reaches the adaptation and runs it
NudgeRuns(g, now) == g.calibrated /\ NudgeDue(now)

\* processGSRSample(rawValue) with millis() returning now
ProcessGSRSample(g, rawValue, now, ub) ==
  LET g1 == GSRSmooth(g, rawValue)
  IN IF ~g1.calibrated
     THEN GSRCalibrate(g1)
     ELSE LET delta == Int16Op(g1.smoothedValue - g1.baseline, ub)
              g2 == [g1 EXCEPT !.sweatLevel = SweatBand(delta)]
          IN IF NudgeDue(now)
             THEN [g2 EXCEPT !.baseline = GSRNudge(g2.baseline, g2.smoothedValue, ub)]
             ELSE g2

getSweatLevel(g) == g.sweatLevel
GSRgetRawValue(g) == g.gsrBuffer[(g.bufferIndex + GSR_BUFFER_SIZE - 1) % GSR_BUFFER_SIZE]
getSmoothedValue(g) == g.smoothedValue
getSweatString(g) ==
  CASE g.sweatLevel = 0 -> "DRY "
    [] g.sweatLevel = 1 -> "LOW "
    [] g.sweatLevel = 2 -> "MED "
    [] g.sweatLevel = 3 -> "HIGH"
    [] OTHER -> "ERR "

-----------------------------------------------------------------------------
(* respiratory_band.ino: two stretch sensors, each with a five-LED bar *)

num_LEDs == 5
chest_LED_pins == [i \in 0..(num_LEDs - 1) |-> 9 + i]
belly_LED_pins == [i \in 0..(num_LEDs - 1) |-> 8 - i]

\* Arduino's map(): (x - in_min) * (out_max - out_min) / (in_max - in_min) + out_min
\* in long arithmetic
Map(x, in_min, in_max, out_min, out_max) ==
  Quot((x - in_min) * (out_max - out_min), in_max - in_min) + out_min

\* the adjusted limit a potentiometer reading selects
BandLimit(adjust_reading) == ToInt16(Map(adjust_reading, 0, 1023, 100, 700))

BandDelta(ADC_min, ADC_max) == Quot(ADC_max - ADC_min, num_LEDs + 1)

\* thresholds[0] = ADC_min + delta, thresholds[i] = thresholds[i-1] + delta
RECURSIVE BandThresholdFromMin(_, _, _)
BandThresholdFromMin(i, ADC_min, delta) ==
  IF i = 0 THEN ADC_min ELSE ToInt16(BandThresholdFromMin(i - 1, ADC_min, delta) + delta)
RECURSIVE BandThreshold(_, _, _)
BandThreshold(i, ADC_min, delta) ==
  IF i = 0 THEN ToInt16(ADC_min + delta)
  ELSE ToInt16(BandThreshold(i - 1, ADC_min, delta) + delta)

BandThresholds(ADC_min, delta) ==
  [i \in 0..(num_LEDs - 1) |-> BandThreshold(i, ADC_min, delta)]

\* the level digitalWrite gives the pin of LED i
BandLevel(sensor_reading, thresholds, i) ==
  IF sensor_reading > thresholds[i] THEN "HIGH" ELSE "LOW"

\* globals are zero-initialised and setup() leaves every LED pin an output at LOW
BandInit ==
  [ chest_min_adjust_reading |-> 0, chest_max_adjust_reading |-> 0,
    chest_sensor_reading |-> 0,
    belly_min_adjust_reading |-> 0, belly_max_adjust_reading |-> 0,
    belly_sensor_reading |-> 0,
    chest_ADC_min |-> 0, chest_ADC_max |-> 0, belly_ADC_min |-> 0, belly_ADC_max |-> 0,
    chest_delta |-> 0, belly_delta |-> 0,
    chest_thresholds |-> [i \in 0..(num_LEDs - 1) |-> 0],
    belly_thresholds |-> [i \in 0..(num_LEDs - 1) |-> 0],
    pins |-> [p \in 4..13 |-> "LOW"] ]

\* one pass of loop() with the six analogRead results
BandPass(b, cmin, cmax, cs, bmin, bmax, bs) ==
  LET chest_ADC_min == BandLimit(cmin)
      chest_ADC_max == BandLimit(cmax)
      belly_ADC_min == BandLimit(bmin)
      belly_ADC_max == BandLimit(bmax)
      chest_delta == BandDelta(chest_ADC_min, chest_ADC_max)
      belly_delta == BandDelta(belly_ADC_min, belly_ADC_max)
      chest_thresholds == BandThresholds(chest_ADC_min, chest_delta)
      belly_thresholds == BandThresholds(belly_ADC_min, belly_delta)
  IN [ chest_min_adjust_reading |-> cmin, chest_max_adjust_reading |-> cmax,
       chest_sensor_reading |-> cs,
       belly_min_adjust_reading |-> bmin, belly_max_adjust_reading |-> bmax,
       belly_sensor_reading |-> bs,
       chest_ADC_min |-> chest_ADC_min, chest_ADC_max |-> chest_ADC_max,
       belly_ADC_min |-> belly_ADC_min, belly_ADC_max |-> belly_ADC_max,
       chest_delta |-> chest_delta, belly_delta |-> belly_delta,
       chest_thresholds |-> chest_thresholds,
       belly_thresholds |-> belly_thresholds,
       pins |-> [p \in 4..13 |->
                  IF p >= 9 THEN BandLevel(cs, chest_thresholds, p - 9)
                  ELSE BandLevel(bs, belly_thresholds, 8 - p)] ]

-----------------------------------------------------------------------------
(* Environment common to the specifications *)

SETUP_DELAY == 2000
DEBOUNCE_DELAY == 200

ECG_SAMPLE_INTERVAL == 3
RESP_SAMPLE_INTERVAL == 50
GSR_SAMPLE_INTERVAL == 200
LCD_UPDATE_INTERVAL == 1000
DATA_LOG_INTERVAL == 1000

\* millis() when setup() returns: both delays of setup() have elapsed, plus
\* the time the wearer took to press the start button
StartClocks == {UL(SETUP_DELAY + DEBOUNCE_DELAY), UL(SETUP_DELAY + DEBOUNCE_DELAY + 801)}

NoWave == [kind |-> "none"]

\* the line setup() writes to VITALS.CSV
CsvHeader == "Timestamp_ms,HR_bpm,RR_bpm,Sweat_Level,ECG_Raw,Resp_Raw,GSR_Raw"

\* the state when setup() returns
SetupDone ==
  /\ pinLoPlus = 0 /\ pinLoMinus = 0
  /\ ecg = ECGInit /\ ecgRef = ECGInit
  /\ resp = RespInit /\ respRef = RespInit /\ gsr = GSRInit
  /\ lastECGSample = UL(0) /\ lastRespSample = UL(0) /\ lastGSRSample = UL(0)
  /\ lastLCDUpdate = UL(0) /\ lastDataLog = UL(0)
  /\ displayMode = 0
  /\ lcd = [mode |-> -1, text |-> "Recording..."]
  /\ dataFile = <<CsvHeader>>
  /\ loopNow = UL(0)
  /\ sessionStartTime = clock
  /\ pc = "loop"
  /\ fired = <<>>
  /\ calls = 0
  /\ band = BandInit

-----------------------------------------------------------------------------
(* SpecECG: processECGSample called with arbitrary samples, lead levels and
   call times *)

MaxEcgCalls == 4
EcgLevels == {500, 700}
EcgSteps == {150, 151, 999, 1000}

ECGCall ==
  /\ calls < MaxEcgCalls
  /\ \E d \in EcgSteps, rawValue \in EcgLevels, lp \in {0, 1}, lm \in {0, 1} :
       /\ clock' = ULAdd(clock, d)
       /\ pinLoPlus' = lp
       /\ pinLoMinus' = lm
       /\ ecg' = ProcessECGSample(ecg, rawValue, lp, lm, clock')
  /\ calls' = calls + 1
  /\ UNCHANGED <<band, ecgRef, resp, respRef, gsr, schedVars, wave>>

InitECG == clock \in StartClocks /\ SetupDone /\ wave = NoWave
NextECG == ECGCall
SpecECG == InitECG /\ [][NextECG]_vars

\* C4: a processECGSample call made while either lead is off sets leadOff and
\* zeroes the heart rate and leaves every other field of the processor as it
\* was (buffer, cursor, signalMin/signalMax, peakThreshold, inPeak, peakValue,
\* lastPeakTime, RR ring), on every such call.
C4_LeadOffFrame ==
  [][(calls' = calls + 1 /\ LeadsDisconnected(pinLoPlus', pinLoMinus'))
       => /\ ecg'.leadOff /\ ecg'.currentHeartRate = 0
          /\ \A f \in (DOMAIN ecg) \ {"leadOff", "currentHeartRate"} : ecg'[f] = ecg[f]]_vars

\* a lead-off call made in the middle of a peak, after an earlier peak exit
C4_Witness ==
  /\ ecg.leadOff /\ ecg.inPeak /\ ULPos(ecg.lastPeakTime) /\ ecg.bufferIndex = 3
  /\ pinLoMinus = 1 /\ pinLoPlus = 0

\* C5 (as claimed): on a peak exit that has a predecessor, the candidate
\* interval enters the ring exactly when 300 <= candidate <= 2000, and a
\* dropped candidate leaves the ring untouched.
C5_ClosedRangeAdmission ==
  [][(ecg.inPeak /\ ~ecg'.inPeak /\ ULPos(ecg.lastPeakTime))
       => LET candidate == RRCandidate(clock', ecg.lastPeakTime)
              inRange == candidate >= RR_MIN /\ candidate <= RR_MAX
          IN /\ inRange => /\ ecg'.rrIntervals[ecg.rrIndex] = candidate
                           /\ ecg'.rrIndex = (ecg.rrIndex + 1) % RR_SLOTS
             /\ ~inRange => /\ ecg'.rrIntervals = ecg.rrIntervals
                            /\ ecg'.rrIndex = ecg.rrIndex]_vars

-----------------------------------------------------------------------------
(* SpecEdge: processECGSample around the first wrap of the sample buffer: a
   resting signal with one beat for the first samples, then arbitrary samples
   and lead levels *)

MaxEdgeFree == 5
EdgeSettle == 97
EdgeRestLevels == {500, 503}
EdgeLevels == {500, 610, 650}

\* the k-th sample of the resting stretch: one beat of height 1000 in the middle
EdgeRestSample(lo, k) == IF k = 50 THEN 1000 ELSE lo

EdgeCall ==
  /\ wave.kind = "edge"
  /\ calls < EdgeSettle + MaxEdgeFree
  /\ \E rawValue \in (IF calls < EdgeSettle THEN {EdgeRestSample(wave.lo, calls + 1)}
                      ELSE EdgeLevels),
        lm \in (IF calls < EdgeSettle THEN {0} ELSE {0, 1}) :
       /\ clock' = ULAdd(clock, 50)
       /\ pinLoMinus' = lm
       /\ ecg' = ProcessECGSample(ecg, rawValue, pinLoPlus, lm, clock')
  /\ calls' = calls + 1
  /\ UNCHANGED <<band, pinLoPlus, ecgRef, resp, respRef, gsr, schedVars, wave>>

InitEdge ==
  /\ clock \in StartClocks /\ SetupDone
  /\ \E lo \in EdgeRestLevels : wave = [kind |-> "edge", lo |-> lo]
NextEdge == EdgeCall
SpecEdge == InitEdge /\ [][NextEdge]_vars

\* C19: the peak threshold is recomputed on the pushes that wrap the buffer
\* cursor to 0 and on no other call; it becomes min + 0.6 x (max - min),
\* truncated, min and max including the sample just pushed; signalMin and
\* signalMax are then re-seeded to a band of width 0.8 x (max - min),
\* truncated, whose midpoint is within one unit of the new threshold.  On any
\* other push min and max just track the sample.
C19_ThresholdOnWrap ==
  [][calls' = calls + 1
       => IF LeadsDisconnected(pinLoPlus', pinLoMinus')
          THEN /\ ecg'.peakThreshold = ecg.peakThreshold
               /\ ecg'.signalMin = ecg.signalMin /\ ecg'.signalMax = ecg.signalMax
          ELSE LET raw == ECGgetRawValue(ecg')
                   mn == IF raw < ecg.signalMin THEN raw ELSE ecg.signalMin
                   mx == IF raw > ecg.signalMax THEN raw ELSE ecg.signalMax
                   range == mx - mn
                   twice == ecg'.signalMin + ecg'.signalMax - 2 * ecg'.peakThreshold
               IN IF ecg'.bufferIndex = 0
                  THEN /\ range >= 0
                       /\ ecg'.peakThreshold = mn + (6 * range) \div 10
                       /\ ecg'.signalMax - ecg'.signalMin = (8 * range) \div 10
                       /\ twice \in -2..2
                  ELSE /\ ecg'.peakThreshold = ecg.peakThreshold
                       /\ ecg'.signalMin = mn /\ ecg'.signalMax = mx]_vars

\* the state right after the 100th push, rest level 503: range 497, where
\* 0.6 x range and 0.8 x range are both truncated
C19_Witness ==
  /\ wave.kind = "edge" /\ wave.lo = 503
  /\ ecg.bufferIndex = 0 /\ ecg.ecgBuffer[ECG_BUFFER_SIZE - 1] > 0
  /\ ecg.peakThreshold = 801
  /\ ecg.signalMin = 602 /\ ecg.signalMax = 999

\* C20 (as claimed): on a call with both leads connected, a sample above the
\* current threshold while not in a peak enters in-peak; a sample below the
\* current threshold while in a peak leaves in-peak and takes the interval
\* step (lastPeakTime becomes the clock); and no other call takes that step.
C20_EdgeBasedPeaks ==
  [][(calls' = calls + 1 /\ ~LeadsDisconnected(pinLoPlus', pinLoMinus'))
       => LET raw == ECGgetRawValue(ecg')
              thr == ecg'.peakThreshold
          IN /\ (~ecg.inPeak /\ raw > thr) => ecg'.inPeak
             /\ (ecg.inPeak /\ raw < thr)
                  => (~ecg'.inPeak /\ ecg'.lastPeakTime = clock')
             /\ (ecg'.lastPeakTime # ecg.lastPeakTime \/ ecg'.rrIndex # ecg.rrIndex)
                  => (ecg.inPeak /\ raw < thr)]_vars

-----------------------------------------------------------------------------
(* SpecResp: processRespSample called with arbitrary samples and call times,
   from the start or after a quiet stretch that nearly fills the window *)

MaxRespFree == 5
RespSettle == 57
RespLevels == {450, 520, 570}
RespSteps == {RESP_SAMPLE_INTERVAL, 1450, 1600}

RespCall ==
  /\ wave.kind = "resp"
  /\ calls < wave.settle + MaxRespFree
  /\ \E d \in (IF calls < wave.settle THEN {RESP_SAMPLE_INTERVAL} ELSE RespSteps),
        rawValue \in (IF calls < wave.settle THEN {wave.level} ELSE RespLevels) :
       /\ clock' = ULAdd(clock, d)
       /\ resp' \in {ProcessRespSample(resp, rawValue, clock', ub) : ub \in UBOutcomes}
  /\ calls' = calls + 1
  /\ UNCHANGED <<band, pinLoPlus, pinLoMinus, ecg, ecgRef, respRef, gsr, schedVars, wave>>

InitResp ==
  /\ clock \in StartClocks /\ SetupDone
  /\ \E n \in {0, RespSettle} : wave = [kind |-> "resp", settle |-> n, level |-> 512]
NextResp == RespCall
SpecResp == InitResp /\ [][NextResp]_vars

\* C3: a call of processRespSample performs the breath-cycle step (reads the
\* clock and sets lastBreathTime to it) if and only if the phase classified by
\* the preceding call was EXHALE and the phase classified by this call is
\* INHALE; EXHALE, HOLD, INHALE and every other transition perform none.
C3_BreathOnlyOnExhaleToInhale ==
  [][calls' = calls + 1
       => /\ resp'.lastState = resp.currentState
          /\ (resp'.lastBreathTime # resp.lastBreathTime) => (resp'.lastBreathTime = clock')
          /\ (resp'.lastBreathTime = clock')
               <=> (resp.currentState = "EXHALE" /\ resp'.currentState = "INHALE")]_vars

\* a second breath-cycle event, whose interval was admitted, after the window
\* was recomputed
C3_Witness ==
  /\ resp.currentState = "INHALE" /\ resp.lastState = "EXHALE"
  /\ resp.lastBreathTime = clock
  /\ resp.currentBreathRate > 0
  /\ resp.baseline # 512

\* C17 (as claimed): on a breath-cycle event that has a predecessor, the
\* candidate interval enters the ring exactly when 1500 <= candidate <= 10000,
\* and a dropped candidate leaves the ring and the breath rate untouched.
C17_ClosedBreathRange ==
  [][(calls' = calls + 1 /\ resp.currentState = "EXHALE" /\ resp'.currentState = "INHALE"
        /\ ULPos(resp.lastBreathTime))
       => LET candidate == ToInt16(ULSub(clock', resp.lastBreathTime)[2])
              inRange == candidate >= BREATH_MIN /\ candidate <= BREATH_MAX
          IN /\ inRange => /\ resp'.breathIntervals[resp.breathIndex] = candidate
                           /\ resp'.breathIndex = (resp.breathIndex + 1) % BREATH_SLOTS
             /\ ~inRange => /\ resp'.breathIntervals = resp.breathIntervals
                            /\ resp'.breathIndex = resp.breathIndex
                            /\ resp'.currentBreathRate = resp.currentBreathRate]_vars

-----------------------------------------------------------------------------
(* SpecTwin: two RespiratoryProcessors fed the same samples; respRef sees them
   at the same clock values or, when wave.skewed, on a clock running twice as
   fast.  Both are runs of one build, so an operation with undefined
   behaviour has the same outcome in both. *)

TwinCall ==
  /\ wave.kind = "twin"
  /\ calls < wave.settle + MaxRespFree
  /\ \E d \in (IF calls < wave.settle THEN {RESP_SAMPLE_INTERVAL} ELSE RespSteps),
        rawValue \in (IF calls < wave.settle THEN {wave.level} ELSE RespLevels),
        ub \in UBOutcomes :
       /\ clock' = ULAdd(clock, d)
       /\ wave' = [wave EXCEPT !.refClock = ULAdd(@, IF wave.skewed THEN 2 * d ELSE d)]
       /\ resp' = ProcessRespSample(resp, rawValue, clock', ub)
       /\ respRef' = ProcessRespSample(respRef, rawValue, wave'.refClock, ub)
  /\ calls' = calls + 1
  /\ UNCHANGED <<band, pinLoPlus, pinLoMinus, ecg, ecgRef, gsr, schedVars>>

InitTwin ==
  /\ clock \in StartClocks /\ SetupDone
  /\ \E n \in {0, RespSettle}, sk \in BOOLEAN :
       wave = [kind |-> "twin", settle |-> n, level |-> 512, skewed |-> sk,
               refClock |-> clock]
NextTwin == TwinCall
SpecTwin == InitTwin /\ [][NextTwin]_vars

\* C18: two respiratory processors started from the initial state and fed the
\* same samples at the same clock values have the same phase and breath rate
\* after every call; and the phase a call sets is the classification of that
\* call's sample against the thresholds in force, whatever the previous phase
\* and the clock: a copy fed the same samples on a different clock goes
\* through the same phases and thresholds.
C18_RespDeterministic ==
  /\ [](~wave.skewed => (/\ respRef.currentState = resp.currentState
                         /\ respRef.currentBreathRate = resp.currentBreathRate))
  /\ [](/\ respRef.currentState = resp.currentState
        /\ respRef.inhaleThreshold = resp.inhaleThreshold
        /\ respRef.exhaleThreshold = resp.exhaleThreshold)
  /\ [][calls' = calls + 1
          => resp'.currentState = RespClassify(RespgetRawValue(resp'), resp'.inhaleThreshold,
                                               resp'.exhaleThreshold)]_vars

\* both copies, on the same clock, after a breath whose interval was admitted
\* and after the thresholds were recomputed
C18_Witness ==
  /\ wave.kind = "twin" /\ ~wave.skewed
  /\ resp.currentBreathRate > 0 /\ respRef.currentBreathRate = resp.currentBreathRate
  /\ resp.baseline # 512
  /\ resp.currentState = "INHALE" /\ respRef.currentState = "INHALE"

-----------------------------------------------------------------------------
(* SpecGSR: processGSRSample called every 200 ms, with a steady signal for the
   first samples and arbitrary samples afterwards *)

MaxGsrFree == 8
GsrSettle == 48
GsrLevels == {300, 570, 600}
GsrRestLevels == {300, 600}

\* the second start time puts a call of the classification phase on a multiple
\* of 60000 ms
GsrStartClocks ==
  {UL(SETUP_DELAY + DEBOUNCE_DELAY),
   UL(BASELINE_PERIOD - (CALIBRATION_TIME + 3) * GSR_SAMPLE_INTERVAL)}

GSRCall ==
  /\ wave.kind = "gsr"
  /\ calls < wave.settle + MaxGsrFree
  /\ \E rawValue \in (IF calls < wave.settle THEN {wave.level} ELSE GsrLevels) :
       /\ clock' = ULAdd(clock, GSR_SAMPLE_INTERVAL)
       /\ gsr' \in {ProcessGSRSample(gsr, rawValue, clock', ub) : ub \in UBOutcomes}
  /\ calls' = calls + 1
  /\ UNCHANGED <<band, pinLoPlus, pinLoMinus, ecg, ecgRef, resp, respRef, schedVars, wave>>

InitGSR ==
  /\ clock \in GsrStartClocks /\ SetupDone
  /\ \E l \in GsrRestLevels :
       \/ wave = [kind |-> "gsr", settle |-> GsrSettle, level |-> l]
       \/ l = 300 /\ wave = [kind |-> "gsr", settle |-> 0, level |-> l]
NextGSR == GSRCall
SpecGSR == InitGSR /\ [][NextGSR]_vars

\* C8: in classification mode (the processor was calibrated before the call)
\* the sweat level set by a call is the band of delta = smoothed - baseline:
\* delta < 10 DRY, 10 <= delta < 30 LOW, 30 <= delta < 60 MED, delta >= 60 HIGH;
\* so 9, 10, 29, 30, 59, 60 give 0, 1, 1, 2, 2, 3 and negative deltas give 0.
C8_ClassificationBands ==
  [][(calls' = calls + 1 /\ gsr.calibrated)
       => LET delta == gsr'.smoothedValue - gsr.baseline
          IN /\ delta < 10 => gsr'.sweatLevel = 0
             /\ (delta >= 10 /\ delta < 30) => gsr'.sweatLevel = 1
             /\ (delta >= 30 /\ delta < 60) => gsr'.sweatLevel = 2
             /\ delta >= 60 => gsr'.sweatLevel = 3
             /\ delta = 9 => getSweatString(gsr') = "DRY "
             /\ delta \in {10, 29} => getSweatString(gsr') = "LOW "
             /\ delta \in {30, 59} => getSweatString(gsr') = "MED "
             /\ delta = 60 => getSweatString(gsr') = "HIGH"]_vars

\* a classification at delta = 59, the upper edge of MED
C8_Witness ==
  /\ gsr.calibrated /\ gsr.calibrationSamples = CALIBRATION_TIME
  /\ gsr.smoothedValue - gsr.baseline = 59
  /\ gsr.sweatLevel = 2

\* C9 (as claimed): while the processor is not calibrated, what the display
\* and log consumers read (getSweatString, getSweatLevel) differs from what
\* they read for a valid DRY classification; and right after calibration the
\* level is DRY when smoothed equals baseline.
C9_WithheldUntilCalibrated ==
  /\ ~gsr.calibrated => (getSweatString(gsr) # "DRY " /\ getSweatLevel(gsr) # 0)
  /\ (gsr.calibrated /\ gsr.smoothedValue = gsr.baseline) => getSweatLevel(gsr) = 0

\* C10: calibrated turns true on the 50th processed sample and on no earlier
\* one; on that sample baseline becomes the smoothed value just computed and
\* the sweat level is not touched; once calibrated, calibrated stays true and
\* calibrationSamples stays put.
C10_CalibratesOnceAtFifty ==
  [][calls' = calls + 1
       => /\ gsr'.calibrated <=> (calls' >= CALIBRATION_TIME)
          /\ ~gsr.calibrated => gsr'.calibrationSamples = calls'
          /\ (~gsr.calibrated /\ gsr'.calibrated)
               => /\ gsr'.baseline = gsr'.smoothedValue
                  /\ gsr'.sweatLevel = gsr.sweatLevel
          /\ gsr.calibrated
               => /\ gsr'.calibrated
                  /\ gsr'.calibrationSamples = CALIBRATION_TIME]_vars

\* the state right after the 50th sample
C10_Witness ==
  /\ calls = CALIBRATION_TIME /\ gsr.calibrated
  /\ gsr.baseline = gsr.smoothedValue /\ gsr.baseline > 0
  /\ gsr.calibrationSamples = CALIBRATION_TIME

-----------------------------------------------------------------------------
(* SpecDrift: processGSRSample called exactly every 200 ms for more than a
   minute past calibration, on a slowly rising signal *)

MaxDriftCalls == 360
DriftLevels == {300, 600}

\* the sample of the k-th call: the rest level plus one unit every ten samples
DriftSignal(level, k) == level + (k \div 10)

DriftCall ==
  /\ wave.kind = "drift"
  /\ calls < MaxDriftCalls
  /\ clock' = ULAdd(clock, GSR_SAMPLE_INTERVAL)
  /\ gsr' \in {ProcessGSRSample(gsr, DriftSignal(wave.level, calls), clock', ub) :
                 ub \in UBOutcomes}
  /\ wave' = [wave EXCEPT !.nudges = IF NudgeRuns(gsr, clock') THEN @ + 1 ELSE @]
  /\ calls' = calls + 1
  /\ UNCHANGED <<band, pinLoPlus, pinLoMinus, ecg, ecgRef, resp, respRef, schedVars>>

InitDrift ==
  /\ clock \in StartClocks /\ SetupDone
  /\ \E l \in DriftLevels : wave = [kind |-> "drift", level |-> l, nudges |-> 0]
NextDrift == DriftCall
SpecDrift == InitDrift /\ [][NextDrift]_vars

\* C11 (as claimed): with the processor calibrated and sampled every 200 ms,
\* the adaptation has run by the time 60000 ms have passed since calibration;
\* a call that runs it moves baseline to a value between the old baseline and
\* the smoothed value; and a call that does not run it leaves baseline alone.
C11_NudgedEveryMinute ==
  /\ [](calls >= CALIBRATION_TIME + BASELINE_PERIOD \div GSR_SAMPLE_INTERVAL
          => wave.nudges >= 1)
  /\ [][(calls' = calls + 1 /\ gsr.calibrated)
          => IF wave'.nudges # wave.nudges
             THEN \/ gsr.baseline <= gsr'.baseline /\ gsr'.baseline <= gsr'.smoothedValue
                  \/ gsr'.smoothedValue <= gsr'.baseline /\ gsr'.baseline <= gsr.baseline
             ELSE gsr'.baseline = gsr.baseline]_vars

\* C29 (as claimed): a call that applies the adaptation, with the old baseline
\* and the smoothed value in 0..1023, leaves the new baseline between the two
\* (inclusive), within 1% of their distance (rounded up) of the old baseline,
\* and inside 0..1023.
C29_NudgeStaysBetween ==
  [][(wave.kind = "drift" /\ calls' = calls + 1 /\ NudgeRuns(gsr, clock')
        /\ gsr.baseline \in 0..1023 /\ gsr'.smoothedValue \in 0..1023)
       => LET old == gsr.baseline
              smoothed == gsr'.smoothedValue
              lo == IF old < smoothed THEN old ELSE smoothed
              hi == IF old < smoothed THEN smoothed ELSE old
          IN /\ gsr'.baseline \in lo..hi
             /\ 100 * (IF gsr'.baseline > old THEN gsr'.baseline - old
                        ELSE old - gsr'.baseline) <= (hi - lo) + 99
             /\ gsr'.baseline \in 0..1023]_vars

-----------------------------------------------------------------------------
(* SpecRing: one of the three processors fed more samples than its buffer
   holds; the k-th sample carries k, so that every pushed value is distinct *)

MaxRingPushes == 105
RingTargets == {"ecg", "resp", "gsr"}

\* the k-th sample of each signal: a pulse train with peak exits 400 ms apart
\* for the cardiac processor, an exhale-to-inhale edge every 1600 ms for the
\* respiratory processor, a ramp for the GSR processor
RingEcgSample(k) == IF k % 8 < 2 THEN 700 + k ELSE 300 + k
RingRespSample(k) == IF k % 4 = 0 THEN 600 + k ELSE 400 + k
RingGsrSample(k) == 300 + k

\* whether the call that led to e2 at time now admitted an interval to the
\* cardiac interval ring, and likewise for the respiratory ring
RRAdmitted(e1, e2, now) ==
  /\ e1.inPeak /\ ~e2.inPeak
  /\ ULPos(e1.lastPeakTime) /\ RRValid(RRCandidate(now, e1.lastPeakTime))
BreathAdmitted(r1, r2, now) ==
  /\ r2.lastState = "EXHALE" /\ r2.currentState = "INHALE"
  /\ ULPos(r1.lastBreathTime)
  /\ BreathValid(ToInt16(ULSub(now, r1.lastBreathTime)[2]))

\* wave.sinceOff counts the intervals admitted since the last lead-off call
\* (-1 while no call has seen a disconnected lead)
RingEcgPush ==
  /\ wave.kind = "ring" /\ wave.target = "ecg"
  /\ Len(wave.pushed) < MaxRingPushes
  /\ LET rawValue == RingEcgSample(Len(wave.pushed) + 1)
     IN /\ clock' = ULAdd(clock, 50)
        /\ pinLoPlus' = 0
        /\ pinLoMinus' = 0
        /\ ecg' = ProcessECGSample(ecg, rawValue, 0, 0, clock')
        /\ wave' = [wave EXCEPT !.pushed = Append(@, rawValue),
                                !.sinceOff = IF @ >= 0 /\ RRAdmitted(ecg, ecg', clock')
                                             THEN @ + 1 ELSE @]
  /\ calls' = calls + 1
  /\ UNCHANGED <<band, ecgRef, resp, respRef, gsr, schedVars>>

\* a call of processECGSample while a lead-off pin reads 1: nothing is pushed
RingLeadOff ==
  /\ wave.kind = "ring" /\ wave.target = "ecg"
  /\ wave.offLeft > 0
  /\ Len(wave.pushed) < MaxRingPushes
  /\ clock' = ULAdd(clock, 50)
  /\ \E loPlus, loMinus \in {0, 1} :
       /\ LeadsDisconnected(loPlus, loMinus)
       /\ pinLoPlus' = loPlus
       /\ pinLoMinus' = loMinus
       /\ ecg' = ProcessECGSample(ecg, RingEcgSample(Len(wave.pushed) + 1),
                                  loPlus, loMinus, clock')
  /\ wave' = [wave EXCEPT !.offLeft = @ - 1, !.sinceOff = 0]
  /\ calls' = calls + 1
  /\ UNCHANGED <<band, ecgRef, resp, respRef, gsr, schedVars>>

RingRespPush ==
  /\ wave.kind = "ring" /\ wave.target = "resp"
  /\ Len(wave.pushed) < MaxRingPushes
  /\ LET rawValue == RingRespSample(Len(wave.pushed) + 1)
     IN /\ clock' = ULAdd(clock, 400)
        /\ resp' \in {ProcessRespSample(resp, rawValue, clock', ub) : ub \in UBOutcomes}
        /\ wave' = [wave EXCEPT !.pushed = Append(@, rawValue)]
  /\ calls' = calls + 1
  /\ UNCHANGED <<band, pinLoPlus, pinLoMinus, ecg, ecgRef, respRef, gsr, schedVars>>

RingGsrPush ==
  /\ wave.kind = "ring" /\ wave.target = "gsr"
  /\ Len(wave.pushed) < MaxRingPushes
  /\ LET rawValue == RingGsrSample(Len(wave.pushed) + 1)
     IN /\ clock' = ULAdd(clock, GSR_SAMPLE_INTERVAL)
        /\ gsr' \in {ProcessGSRSample(gsr, rawValue, clock', ub) : ub \in UBOutcomes}
        /\ wave' = [wave EXCEPT !.pushed = Append(@, rawValue)]
  /\ calls' = calls + 1
  /\ UNCHANGED <<band, pinLoPlus, pinLoMinus, ecg, ecgRef, resp, respRef, schedVars>>

InitRing ==
  /\ clock \in StartClocks /\ SetupDone
  /\ \E t \in RingTargets : wave = [kind |-> "ring", target |-> t, pushed |-> <<>>,
                                    offLeft |-> 1, sinceOff |-> -1]
NextRing == RingEcgPush \/ RingLeadOff \/ RingRespPush \/ RingGsrPush
SpecRing == InitRing /\ [][NextRing]_vars

\* a ring of capacity N with cursor idx, after the pushes in pushed: latest is
\* the last pushed value, the min(k, N) slots behind the cursor hold the last
\* min(k, N) pushed values, newest first, and after N + 1 pushes the first
\* pushed value is gone
RingHolds(buf, idx, N, latest, pushed) ==
  LET k == Len(pushed)
  IN k >= 1
       => /\ latest = pushed[k]
          /\ \A j \in 0..((IF k < N THEN k ELSE N) - 1) :
               buf[(idx + 2 * N - 1 - j) % N] = pushed[k - j]
          /\ k = N + 1 => \A i \in 0..(N - 1) : buf[i] # pushed[1]

\* C15: for each of the three sample buffers, after k >= 1 pushes getRawValue()
\* returns the k-th pushed value and the buffer holds the last min(k, N) pushed
\* values; after N + 1 pushes the first pushed value is no longer in it.
C15_RingKeepsLatest ==
  /\ wave.target = "ecg"
       => RingHolds(ecg.ecgBuffer, ecg.bufferIndex, ECG_BUFFER_SIZE, ECGgetRawValue(ecg),
                    wave.pushed)
  /\ wave.target = "resp"
       => RingHolds(resp.respBuffer, resp.bufferIndex, RESP_BUFFER_SIZE,
                    RespgetRawValue(resp), wave.pushed)
  /\ wave.target = "gsr"
       => RingHolds(gsr.gsrBuffer, gsr.bufferIndex, GSR_BUFFER_SIZE, GSRgetRawValue(gsr),
                    wave.pushed)

\* the cardiac buffer after 101 pushes, one lead-off call among them
C15_Witness ==
  /\ wave.target = "ecg" /\ wave.offLeft = 0
  /\ Len(wave.pushed) = ECG_BUFFER_SIZE + 1
  /\ ecg.bufferIndex = 1
  /\ ECGgetRawValue(ecg) = RingEcgSample(ECG_BUFFER_SIZE + 1)

\* C16: every write cursor stays in [0, N) (N = 100, 60, 30 for the sample
\* buffers, 10 for the two interval rings), and every push advances its cursor
\* by exactly one modulo N; a call that pushes nothing leaves the cursor alone.
C16_CursorsInRange ==
  /\ [](/\ ecg.bufferIndex \in 0..(ECG_BUFFER_SIZE - 1)
        /\ resp.bufferIndex \in 0..(RESP_BUFFER_SIZE - 1)
        /\ gsr.bufferIndex \in 0..(GSR_BUFFER_SIZE - 1)
        /\ ecg.rrIndex \in 0..(RR_SLOTS - 1)
        /\ resp.breathIndex \in 0..(BREATH_SLOTS - 1))
  /\ [][calls' = calls + 1
          => LET pushes == Len(wave'.pushed) - Len(wave.pushed)
                 at(t) == IF wave.target = t THEN pushes ELSE 0
             IN /\ ecg'.bufferIndex = (ecg.bufferIndex + at("ecg")) % ECG_BUFFER_SIZE
                /\ resp'.bufferIndex = (resp.bufferIndex + at("resp")) % RESP_BUFFER_SIZE
                /\ gsr'.bufferIndex = (gsr.bufferIndex + at("gsr")) % GSR_BUFFER_SIZE
                /\ ecg'.rrIndex = IF at("ecg") = 1 /\ RRAdmitted(ecg, ecg', clock')
                                  THEN (ecg.rrIndex + 1) % RR_SLOTS ELSE ecg.rrIndex
                /\ resp'.breathIndex = IF at("resp") = 1 /\ BreathAdmitted(resp, resp', clock')
                                       THEN (resp.breathIndex + 1) % BREATH_SLOTS
                                       ELSE resp.breathIndex]_vars

\* the cardiac interval ring's cursor past its wrap after twelve admitted
\* intervals, the sample buffer's cursor having wrapped as well
C16_Witness ==
  /\ wave.target = "ecg"
  /\ ecg.rrIndex = 2 /\ ecg.rrIntervals[RR_SLOTS - 1] > 0
  /\ Len(wave.pushed) > ECG_BUFFER_SIZE /\ ecg.bufferIndex < 5

\* C21: getHeartRate returns 0 while lead-off is flagged or while no interval
\* has ever been accepted, and isLeadOff is true exactly when the most recent
\* call of processECGSample read a disconnected lead.
C21_RateAndLeadOffGetters ==
  /\ (ecg.leadOff \/ RRPopulated(ecg.rrIntervals) = {}) => getHeartRate(ecg) = 0
  /\ isLeadOff(ecg) <=> (calls > 0 /\ LeadsDisconnected(pinLoPlus, pinLoMinus))

\* the latest call read LO+ disconnected while the ring holds an interval
C21_Witness ==
  /\ wave.target = "ecg" /\ isLeadOff(ecg)
  /\ pinLoPlus = 1 /\ pinLoMinus = 0
  /\ RRPopulated(ecg.rrIntervals) # {} /\ getHeartRate(ecg) = 0

\* C24: from a lead-off call until the next interval is admitted the heart rate
\* stays 0; the lead-off call leaves the interval ring as it was; and the rate
\* set with the first interval admitted afterwards is 60000 over the mean of
\* the ring's populated slots, which are the slots retained from before the
\* lead-off together with the newly written one.
C24_RateAfterReconnection ==
  /\ [](wave.kind = "ring" /\ wave.sinceOff = 0 => getHeartRate(ecg) = 0)
  /\ [][/\ LeadsDisconnected(pinLoPlus', pinLoMinus') /\ calls' = calls + 1
            => ecg'.rrIntervals = ecg.rrIntervals /\ ecg'.rrIndex = ecg.rrIndex
        /\ wave.kind = "ring" /\ wave.sinceOff = 0 /\ wave'.sinceOff = 1
            => /\ \A i \in 0..(RR_SLOTS - 1) :
                    i # ecg.rrIndex => ecg'.rrIntervals[i] = ecg.rrIntervals[i]
               /\ ecg'.rrIntervals[ecg.rrIndex] = RRCandidate(clock', ecg.lastPeakTime)
               /\ getHeartRate(ecg') > 0
               /\ getHeartRate(ecg') = Quot(60000, MeanPopulated(ecg'.rrIntervals))]_vars

\* the first interval after a lead-off has been admitted on top of retained ones
C24_Witness ==
  /\ wave.kind = "ring" /\ wave.target = "ecg" /\ wave.sinceOff = 1
  /\ Cardinality(RRPopulated(ecg.rrIntervals)) >= 3
  /\ getHeartRate(ecg) = Quot(60000, MeanPopulated(ecg.rrIntervals))
  /\ getHeartRate(ecg) > 0

-----------------------------------------------------------------------------
(* loop(), updateLCD() and logData() *)

\* the due test of a task: now - T >= P in unsigned long
DueNoWrap(now, T, P) ==
  LET deadline == ULAdd(T, P)
  IN now[1] > deadline[1] \/ (now[1] = deadline[1] /\ now[2] >= deadline[2])
Due(now, T, P) == ULGe(ULSub(now, T), P)

\* the value a task's last-fire time takes when the task has run
StampDrift(now, T, P) == ULAdd(T, P)
Stamp(now, T, P) == now

\* the processor state a consumer task reads: the display and log tasks come
\* after the three sampling tasks in the body of loop()
ObservedStale(before, after) == before
Observed(before, after) == after

\* a / 1000 for an unsigned long a
ULDivThousand(a) == a[1] * 65 + ((a[1] * 536 + a[2]) \div 1000)

\* what updateLCD() puts on the screen; hr.dashes is the "--" printed in place of
\* the rate while a lead is off, and mode -1 is the screen setup() leaves
UpdateLCD(mode, e, r, g, ms, start) ==
  LET elapsed == ULDivThousand(ULSub(ms, start))
  IN CASE mode = 0 ->
            [mode |-> 0,
             hr |-> [dashes |-> isLeadOff(e),
                     bpm |-> IF isLeadOff(e) THEN 0 ELSE getHeartRate(e)],
             rr |-> getBreathRate(r),
             sweat |-> getSweatString(g),
             time |-> <<ToInt16(elapsed \div 3600), ToInt16((elapsed % 3600) \div 60),
                        ToInt16(elapsed % 60)>>]
       [] mode = 1 ->
            [mode |-> 1, ecg |-> ECGgetRawValue(e), resp |-> RespgetRawValue(r),
             phase |-> getStateString(r), gsr |-> getSmoothedValue(g)]
       [] mode = 2 ->
            [mode |-> 2, leads |-> IF isLeadOff(e) THEN "OFF" ELSE "OK", storage |-> "OK"]
       [] OTHER -> [mode |-> mode]

\* the row logData() appends when the file opens
LogRow(ms, e, r, g) ==
  <<ms, getHeartRate(e), getBreathRate(r), getSweatLevel(g),
    ECGgetRawValue(e), RespgetRawValue(r), getSmoothedValue(g)>>

MaxPasses == 4
PassSteps == {0, 3, 1000}

\* the signals on the three analog pins, by number of reads
EcgSignal(k) == IF k % 2 = 0 THEN 700 ELSE 500
RespSignal(k) == IF k % 2 = 0 THEN 450 ELSE 570
GsrSignal(k) == 300 + 30 * (k % 20)

\* one pass of loop(): d ms after the previous pass returned; lm is the level
\* of ECG_LO_MINUS, sd whether SD.open succeeds, button the level of BUTTON_MODE
LoopPass ==
  /\ pc = "loop"
  /\ wave.kind = "body"
  /\ calls < MaxPasses
  /\ \E d \in PassSteps :
       LET nw == ULAdd(clock, d)
           ecgDue == Due(nw, lastECGSample, ECG_SAMPLE_INTERVAL)
           respDue == Due(nw, lastRespSample, RESP_SAMPLE_INTERVAL)
           gsrDue == Due(nw, lastGSRSample, GSR_SAMPLE_INTERVAL)
           lcdDue == Due(nw, lastLCDUpdate, LCD_UPDATE_INTERVAL)
           logDue == Due(nw, lastDataLog, DATA_LOG_INTERVAL)
       IN \E lm \in (IF ecgDue THEN {0, 1} ELSE {pinLoMinus}),
             sd \in (IF logDue THEN BOOLEAN ELSE {TRUE}),
             button \in {"HIGH", "LOW"} :
            /\ loopNow' = nw
            /\ pinLoMinus' = lm
            /\ ecg' = IF ecgDue
                      THEN ProcessECGSample(ecg, EcgSignal(wave.ecgReads), pinLoPlus, lm, nw)
                      ELSE ecg
            /\ lastECGSample' = IF ecgDue THEN Stamp(nw, lastECGSample, ECG_SAMPLE_INTERVAL)
                                ELSE lastECGSample
            /\ resp' \in (IF respDue
                          THEN {ProcessRespSample(resp, RespSignal(wave.respReads), nw, ub) :
                                  ub \in UBOutcomes}
                          ELSE {resp})
            /\ lastRespSample' = IF respDue
                                 THEN Stamp(nw, lastRespSample, RESP_SAMPLE_INTERVAL)
                                 ELSE lastRespSample
            /\ gsr' \in (IF gsrDue
                         THEN {ProcessGSRSample(gsr, GsrSignal(wave.gsrReads), nw, ub) :
                                 ub \in UBOutcomes}
                         ELSE {gsr})
            /\ lastGSRSample' = IF gsrDue THEN Stamp(nw, lastGSRSample, GSR_SAMPLE_INTERVAL)
                                ELSE lastGSRSample
            /\ lcd' = IF lcdDue
                      THEN UpdateLCD(displayMode, Observed(ecg, ecg'), Observed(resp, resp'),
                                     Observed(gsr, gsr'), nw, sessionStartTime)
                      ELSE lcd
            /\ lastLCDUpdate' = IF lcdDue THEN Stamp(nw, lastLCDUpdate, LCD_UPDATE_INTERVAL)
                                ELSE lastLCDUpdate
            /\ dataFile' = IF logDue /\ sd
                           THEN Append(dataFile, LogRow(nw, Observed(ecg, ecg'),
                                                        Observed(resp, resp'),
                                                        Observed(gsr, gsr')))
                           ELSE dataFile
            /\ lastDataLog' = IF logDue THEN Stamp(nw, lastDataLog, DATA_LOG_INTERVAL)
                              ELSE lastDataLog
            /\ fired' = (IF ecgDue THEN <<"ecg">> ELSE <<>>)
                          \o (IF respDue THEN <<"resp">> ELSE <<>>)
                          \o (IF gsrDue THEN <<"gsr">> ELSE <<>>)
                          \o (IF lcdDue THEN <<"lcd">> ELSE <<>>)
                          \o (IF logDue THEN <<"log">> ELSE <<>>)
            /\ displayMode' = IF button = "LOW" THEN (displayMode + 1) % 3 ELSE displayMode
            /\ clock' = IF button = "LOW" THEN ULAdd(nw, DEBOUNCE_DELAY) ELSE nw
            /\ wave' = [wave EXCEPT !.ecgReads = IF ecgDue THEN @ + 1 ELSE @,
                                    !.respReads = IF respDue THEN @ + 1 ELSE @,
                                    !.gsrReads = IF gsrDue THEN @ + 1 ELSE @]
  /\ calls' = calls + 1
  /\ UNCHANGED <<band, pinLoPlus, ecgRef, respRef, sessionStartTime, pc>>

InitSched ==
  /\ clock = UL(SETUP_DELAY + DEBOUNCE_DELAY) /\ SetupDone
  /\ wave = [kind |-> "body", ecgReads |-> 0, respReads |-> 0, gsrReads |-> 0]
NextSched == LoopPass
SpecSched == InitSched /\ [][NextSched]_vars

\* how often a task appears among the tasks a pass ran
Runs(seq, task) == Cardinality({i \in 1..Len(seq) : seq[i] = task})

\* a task with period P and last-fire time T before the pass and Tnew after it
\* ran exactly once if now - T >= P and not at all otherwise, and its
\* last-fire time became now exactly when it ran
TaskRanOnceIfDue(task, T, Tnew, P, nw, ran) ==
  /\ Runs(ran, task) = IF Due(nw, T, P) THEN 1 ELSE 0
  /\ Tnew = IF Due(nw, T, P) THEN nw ELSE T

\* C1: on every pass of loop() each of the five tasks runs exactly once if
\* now - T >= P and not at all otherwise, and T becomes now when it runs (never
\* T + P): one run of the extractor per pass, however many periods elapsed.
C1_FiresOncePerDuePass ==
  [][calls' = calls + 1
       => /\ TaskRanOnceIfDue("ecg", lastECGSample, lastECGSample', ECG_SAMPLE_INTERVAL,
                              loopNow', fired')
          /\ TaskRanOnceIfDue("resp", lastRespSample, lastRespSample', RESP_SAMPLE_INTERVAL,
                              loopNow', fired')
          /\ TaskRanOnceIfDue("gsr", lastGSRSample, lastGSRSample', GSR_SAMPLE_INTERVAL,
                              loopNow', fired')
          /\ TaskRanOnceIfDue("lcd", lastLCDUpdate, lastLCDUpdate', LCD_UPDATE_INTERVAL,
                              loopNow', fired')
          /\ TaskRanOnceIfDue("log", lastDataLog, lastDataLog', DATA_LOG_INTERVAL,
                              loopNow', fired')
          /\ IF Runs(fired', "ecg") = 1
             THEN pinLoMinus' = 0
                    => ecg'.bufferIndex = (ecg.bufferIndex + 1) % ECG_BUFFER_SIZE
             ELSE ecg' = ecg
          /\ IF Runs(fired', "resp") = 1
             THEN resp'.bufferIndex = (resp.bufferIndex + 1) % RESP_BUFFER_SIZE
             ELSE resp' = resp
          /\ IF Runs(fired', "gsr") = 1
             THEN /\ gsr'.bufferIndex = (gsr.bufferIndex + 1) % GSR_BUFFER_SIZE
                  /\ ~gsr.calibrated => gsr'.calibrationSamples = gsr.calibrationSamples + 1
             ELSE gsr' = gsr
          /\ Runs(fired', "lcd") = 0 => lcd' = lcd
          /\ Len(dataFile') = Len(dataFile)
               \/ (Runs(fired', "log") = 1 /\ Len(dataFile') = Len(dataFile) + 1)]_vars

\* a pass 200 ms (66 cardiac periods) after the previous one, in which the
\* cardiac task ran once
C1_Witness ==
  /\ calls = 2
  /\ fired = <<"ecg", "resp", "gsr">>
  /\ ULSub(loopNow, lastLCDUpdate) = UL(DEBOUNCE_DELAY)
  /\ lastECGSample = loopNow /\ lastRespSample = loopNow /\ lastGSRSample = loopNow
  /\ ecg.bufferIndex = 2 /\ gsr.calibrationSamples = 2

\* C2: the tasks of a pass run in the order cardiac, respiratory, GSR, display,
\* log, and what the display or the log task of a pass reads is the state the
\* extractors have after that pass's updates, never the state before them.
C2_ConsumersSeeFreshMetrics ==
  [][calls' = calls + 1
       => /\ fired' = SelectSeq(<<"ecg", "resp", "gsr", "lcd", "log">>,
                                LAMBDA t : Runs(fired', t) > 0)
          /\ Runs(fired', "lcd") > 0
               => lcd' = UpdateLCD(displayMode, ecg', resp', gsr', loopNow', sessionStartTime)
          /\ (Runs(fired', "log") > 0 /\ Len(dataFile') > Len(dataFile))
               => dataFile'[Len(dataFile')] = LogRow(loopNow', ecg', resp', gsr')]_vars

\* the display and the log ran in the pass in which the cardiac update
\* accepted its first interval, and show the rate that update computed
C2_Witness ==
  /\ calls = 4
  /\ Runs(fired, "ecg") = 1 /\ Runs(fired, "lcd") = 1 /\ Runs(fired, "log") = 1
  /\ ecg.rrIntervals[0] = 1003 /\ ecg.rrIntervals[1] = 0
  /\ ~isLeadOff(ecg) /\ getHeartRate(ecg) = 59
  /\ lcd = UpdateLCD(0, ecg, resp, gsr, loopNow, sessionStartTime)
  /\ Len(dataFile) > 1 /\ dataFile[Len(dataFile)] = LogRow(loopNow, ecg, resp, gsr)

\* C12 (as claimed): a pass in which the log task runs appends exactly one
\* row, whose seven fields are the timestamp, the heart rate, the breath rate,
\* the sweat level and the latest raw ECG, respiratory and GSR samples.
C12_RowPerLoggingTick ==
  [][(calls' = calls + 1 /\ Runs(fired', "log") = 1)
       => dataFile' = Append(dataFile,
                             <<loopNow', getHeartRate(ecg'), getBreathRate(resp'),
                               getSweatLevel(gsr'), ECGgetRawValue(ecg'),
                               RespgetRawValue(resp'), GSRgetRawValue(gsr')>>)]_vars

\* C14 (as claimed): no pass of loop() waits: the clock when the pass returns
\* is less than ten cardiac sampling periods past the clock the pass read.
C14_PassNeverWaits ==
  [][calls' = calls + 1
       => ~ULGe(ULSub(clock', loopNow'), 10 * ECG_SAMPLE_INTERVAL)]_vars

-----------------------------------------------------------------------------
(* SpecBoot: the sketch from power-on: setup(), then loop() or, when the SD
   card does not initialise, setup()'s while(1) *)

\* the state at power-on, before setup() runs
PowerOn ==
  /\ clock = UL(0)
  /\ pinLoPlus = 0 /\ pinLoMinus = 0
  /\ ecg = ECGInit /\ ecgRef = ECGInit
  /\ resp = RespInit /\ respRef = RespInit /\ gsr = GSRInit
  /\ lastECGSample = UL(0) /\ lastRespSample = UL(0) /\ lastGSRSample = UL(0)
  /\ lastLCDUpdate = UL(0) /\ lastDataLog = UL(0)
  /\ displayMode = 0
  /\ lcd = [mode |-> -1, text |-> ""]
  /\ dataFile = <<>>
  /\ loopNow = UL(0)
  /\ sessionStartTime = UL(0)
  /\ pc = "setup"
  /\ fired = <<>>
  /\ calls = 0
  /\ band = BandInit

\* setup(): sdBegin is the result of SD.begin, sdOpen whether VITALS.CSV opens
Setup ==
  /\ pc = "setup"
  /\ \E sdBegin \in BOOLEAN, sdOpen \in BOOLEAN :
       IF ~sdBegin
       THEN /\ sdOpen
            /\ pc' = "halt"
            /\ lcd' = [mode |-> -1, text |-> "FAILED!"]
            /\ UNCHANGED <<clock, dataFile, sessionStartTime>>
       ELSE /\ pc' = "loop"
            /\ dataFile' = IF sdOpen THEN <<CsvHeader>> ELSE <<>>
            /\ clock' = ULAdd(clock, SETUP_DELAY + DEBOUNCE_DELAY)
            /\ sessionStartTime' = clock'
            /\ lcd' = [mode |-> -1, text |-> "Recording..."]
  /\ UNCHANGED <<band, pinLoPlus, pinLoMinus, ecg, ecgRef, resp, respRef, gsr, lastECGSample,
                 lastRespSample, lastGSRSample, lastLCDUpdate, lastDataLog, displayMode,
                 loopNow, fired, calls, wave>>

\* setup()'s while(1); after a failed SD.begin: time passes, nothing else runs
Halted ==
  /\ pc = "halt"
  /\ calls < MaxPasses
  /\ clock' = ULAdd(clock, LCD_UPDATE_INTERVAL)
  /\ calls' = calls + 1
  /\ UNCHANGED <<band, pinLoPlus, pinLoMinus, ecg, ecgRef, resp, respRef, gsr, schedVars, wave>>

InitBoot ==
  /\ PowerOn
  /\ wave = [kind |-> "body", ecgReads |-> 0, respReads |-> 0, gsrReads |-> 0]
NextBoot == Setup \/ Halted \/ LoopPass
SpecBoot == InitBoot /\ [][NextBoot]_vars

\* C13 (as claimed): whether or not persistence is available, the sketch never
\* reaches a state from which no further sample is processed.
C13_KeepsProducingMetrics == pc # "halt"

-----------------------------------------------------------------------------
(* SpecTrain: processECGSample fed a regular peak train, sampled on a fixed
   grid; ecg may in addition see one spurious peak, ecgRef sees the train
   alone *)

\* the train of the heart-rate test: peak exits 800 ms apart, one call every 50 ms
TrainShape == [spacing |-> 800, step |-> 50]
TrainSlots == TrainShape.spacing \div TrainShape.step

MaxTrainCalls == 220
TrainPeakLevels == {700, 550}
TrainWidths == {1, 2}

\* the sample of the undisturbed train at the current slot of the period
TrainSample(w) == IF w.slot < w.width THEN w.hi ELSE w.lo

TrainAdvance(w) == [w EXCEPT !.slot = (w.slot + 1) % TrainSlots]

\* one sample of the train, seen by both processors
TrainCall ==
  /\ wave.kind = "train"
  /\ calls < MaxTrainCalls
  /\ clock' = ULAdd(clock, TrainShape.step)
  /\ ecg' = ProcessECGSample(ecg, TrainSample(wave), 0, 0, clock')
  /\ ecgRef' = ProcessECGSample(ecgRef, TrainSample(wave), 0, 0, clock')
  /\ wave' = TrainAdvance(wave)
  /\ calls' = calls + 1
  /\ UNCHANGED <<band, pinLoPlus, pinLoMinus, resp, respRef, gsr, schedVars>>

\* one sample in which ecg sees a spurious spike right after a regular peak
\* exit, so that the spike's own exit, one call later, comes 100 or 150 ms
\* after that exit; ecgRef sees the train's sample
InjectCall ==
  /\ wave.kind = "train"
  /\ calls < MaxTrainCalls
  /\ ~wave.injected
  /\ wave.slot \in {wave.width + 1, wave.width + 2}
  /\ clock' = ULAdd(clock, TrainShape.step)
  /\ ecg' = ProcessECGSample(ecg, wave.hi, 0, 0, clock')
  /\ ecgRef' = ProcessECGSample(ecgRef, TrainSample(wave), 0, 0, clock')
  /\ wave' = [TrainAdvance(wave) EXCEPT !.injected = TRUE]
  /\ calls' = calls + 1
  /\ UNCHANGED <<band, pinLoPlus, pinLoMinus, resp, respRef, gsr, schedVars>>

InitTrain ==
  /\ clock \in StartClocks /\ SetupDone
  /\ \E hi \in TrainPeakLevels, width \in TrainWidths :
       wave = [kind |-> "train", hi |-> hi, lo |-> 500, width |-> width,
               slot |-> 0, injected |-> FALSE]
NextTrain == TrainCall \/ InjectCall
SpecTrain == InitTrain /\ [][NextTrain]_vars

\* C6 (as claimed): once a spurious peak with an out-of-range candidate has
\* been injected into the train, the processor that saw it reports the same
\* heart rate as the processor that saw the train alone.
C6_InjectionHarmless ==
  wave.kind = "train" /\ wave.injected => getHeartRate(ecg) = getHeartRate(ecgRef)

\* C7: the heart rate is 60000 divided by the mean of the populated ring slots
\* (integer divisions), and on the train with peak exits 800 ms apart it is 75
\* from the first accepted interval on, so in particular once 10 are accepted.
C7_RateIsMeanOfPopulated ==
  /\ \A e \in {ecg, ecgRef} :
       RRPopulated(e.rrIntervals) # {}
         => getHeartRate(e) = Quot(60000, MeanPopulated(e.rrIntervals))
  /\ RRPopulated(ecgRef.rrIntervals) # {} => getHeartRate(ecgRef) = 75

\* the ring is full, its cursor has wrapped and the sample buffer has wrapped
C7_Witness ==
  /\ Cardinality(RRPopulated(ecgRef.rrIntervals)) = RR_SLOTS
  /\ ecgRef.rrIndex = 1
  /\ ecgRef.peakThreshold # 600
  /\ getHeartRate(ecgRef) = 75

\* C23: every peak exit sets lastPeakTime to the clock value of that call and
\* no other call changes it, so the candidate formed at an exit is the time
\* since the immediately preceding exit (also when that exit's own candidate
\* was rejected); an exit with no earlier exit writes nothing to the ring; and
\* an admitted candidate is the value stored.
C23_LastPeakTimeOnEveryExit ==
  [][wave.kind = "train" =>
       LET exit == ecg.inPeak /\ ~ecg'.inPeak
           candidate == RRCandidate(clock', ecg.lastPeakTime)
       IN /\ exit => ecg'.lastPeakTime = clock'
          /\ ~exit => ecg'.lastPeakTime = ecg.lastPeakTime
                      /\ ecg'.rrIntervals = ecg.rrIntervals
          /\ exit /\ ~ULPos(ecg.lastPeakTime) => ecg'.rrIntervals = ecg.rrIntervals
          /\ exit /\ ULPos(ecg.lastPeakTime) /\ RRValid(candidate)
               => ecg'.rrIntervals = [ecg.rrIntervals EXCEPT ![ecg.rrIndex] = candidate]
          /\ exit /\ ~RRValid(candidate) => ecg'.rrIntervals = ecg.rrIntervals]_vars

\* after the spurious spike's rejected exit, the next regular exit admitted the
\* time since that rejected exit (700 or 650 ms), not the 800 ms spacing
C23_Witness ==
  /\ wave.kind = "train" /\ wave.injected
  /\ \E i \in 0..(RR_SLOTS - 1) : ecg.rrIntervals[i] \in {650, 700}
  /\ \E i \in 0..(RR_SLOTS - 1) : ecg.rrIntervals[i] = 800
  /\ ecg.lastPeakTime # ecgRef.lastPeakTime \/ ecg.rrIntervals # ecgRef.rrIntervals

-----------------------------------------------------------------------------
(* ECGProcessor across a long lead-off gap *)

MaxGapBefore == 4
MaxGapOff == 1340
MaxGapAfter == 10
GapStep == 50

\* a two-sample peak every eighth sample
GapSample(k) == IF k % 8 < 2 THEN 700 ELSE 500

\* a call with both leads connected; wave.k counts the samples taken
GapPush ==
  /\ wave.kind = "gap"
  /\ \/ wave.phase = "before" /\ wave.k < MaxGapBefore
     \/ wave.phase \in {"off", "after"} /\ wave.after < MaxGapAfter
  /\ clock' = ULAdd(clock, GapStep)
  /\ pinLoPlus' = 0 /\ pinLoMinus' = 0
  /\ ecg' = ProcessECGSample(ecg, GapSample(wave.k + 1), 0, 0, clock')
  /\ wave' = [wave EXCEPT !.k = @ + 1,
                          !.phase = IF @ = "before" THEN "before" ELSE "after",
                          !.after = IF wave.phase = "before" THEN 0 ELSE @ + 1]
  /\ calls' = calls + 1
  /\ UNCHANGED <<band, ecgRef, resp, respRef, gsr, schedVars>>

\* a call while ECG_LO_PLUS reads 1; the lead-off period is one unbroken run
GapLeadOff ==
  /\ wave.kind = "gap"
  /\ \/ wave.phase = "before" /\ wave.k > 0
     \/ wave.phase = "off" /\ wave.off < MaxGapOff
  /\ clock' = ULAdd(clock, GapStep)
  /\ pinLoPlus' = 1 /\ pinLoMinus' = 0
  /\ ecg' = ProcessECGSample(ecg, GapSample(wave.k + 1), 1, 0, clock')
  /\ wave' = [wave EXCEPT !.phase = "off", !.off = @ + 1]
  /\ calls' = calls + 1
  /\ UNCHANGED <<band, ecgRef, resp, respRef, gsr, schedVars>>

InitGap ==
  /\ clock \in StartClocks /\ SetupDone
  /\ wave = [kind |-> "gap", phase |-> "before", k |-> 0, off |-> 0, after |-> 0]
NextGap == GapPush \/ GapLeadOff
SpecGap == InitGap /\ [][NextGap]_vars

\* C25 (as claimed): a value written to the cardiac interval ring at a peak exit
\* is the elapsed 32-bit clock time since the preceding peak exit, and when
\* more than 2000 ms have elapsed since that exit nothing is written.
C25_RingHoldsTrueElapsed ==
  [][(wave.kind = "gap" /\ ecg.inPeak /\ ~ecg'.inPeak /\ ULPos(ecg.lastPeakTime))
       => LET elapsed == ULSub(clock', ecg.lastPeakTime)
          IN /\ ecg'.rrIntervals # ecg.rrIntervals
                  => elapsed[1] = 0 /\ ecg'.rrIntervals[ecg.rrIndex] = elapsed[2]
             /\ (elapsed[1] > 0 \/ elapsed[2] > RR_MAX)
                  => ecg'.rrIntervals = ecg.rrIntervals]_vars

-----------------------------------------------------------------------------
(* RespiratoryProcessor over successive 60-sample windows *)

MaxWindowPushes == 125
WindowAmps == {40, 200}

\* a breathing signal around 500: every fourth sample is amp above, the others
\* a quarter of amp below
WindowSample(k, amp) == IF k % 4 = 0 THEN 500 + amp ELSE 500 - (amp \div 4)

\* one call of processRespSample; the amplitude is chosen afresh at the start
\* of each window and wave.pushed records every sample pushed
WindowCall ==
  /\ wave.kind = "window"
  /\ Len(wave.pushed) < MaxWindowPushes
  /\ clock' = ULAdd(clock, RESP_SAMPLE_INTERVAL)
  /\ \E a \in WindowAmps :
       LET amp == IF Len(wave.pushed) % RESP_BUFFER_SIZE = 0 THEN a ELSE wave.amp
           rawValue == WindowSample(Len(wave.pushed), amp)
       IN /\ resp' \in {ProcessRespSample(resp, rawValue, clock', ub) : ub \in UBOutcomes}
          /\ wave' = [wave EXCEPT !.pushed = Append(@, rawValue), !.amp = amp]
  /\ calls' = calls + 1
  /\ UNCHANGED <<band, pinLoPlus, pinLoMinus, ecg, ecgRef, respRef, gsr, schedVars>>

InitWindow ==
  /\ clock \in StartClocks /\ SetupDone
  /\ wave = [kind |-> "window", pushed |-> <<>>, amp |-> 0]
NextWindow == WindowCall
SpecWindow == InitWindow /\ [][NextWindow]_vars

\* the last RESP_BUFFER_SIZE samples of a history, their integer mean and the
\* integer standard deviation about it, in unbounded arithmetic
LastWindow(h) == [i \in 0..(RESP_BUFFER_SIZE - 1) |-> h[Len(h) - RESP_BUFFER_SIZE + 1 + i]]
WindowMean(w) == Quot(SumTo(w, RESP_BUFFER_SIZE), RESP_BUFFER_SIZE)
WindowSigma(w, mean) ==
  LET sq == [i \in 0..(RESP_BUFFER_SIZE - 1) |-> (w[i] - mean) * (w[i] - mean)]
      meanSq == Quot(SumTo(sq, RESP_BUFFER_SIZE), RESP_BUFFER_SIZE)
  IN CHOOSE k \in 0..1023 : k * k <= meanSq /\ meanSq < (k + 1) * (k + 1)

\* C22 (as claimed): the call that pushes the 60th sample of a window sets
\* baseline to the integer mean of exactly those 60 samples and the thresholds
\* to baseline plus and minus half their standard deviation; every other call
\* leaves the three values as they were.
C22_RecomputeFromOwnWindow ==
  [][wave.kind = "window" =>
       IF Len(wave'.pushed) % RESP_BUFFER_SIZE = 0
       THEN \E mu \in {WindowMean(LastWindow(wave'.pushed))} :
              \E sigma \in {WindowSigma(LastWindow(wave'.pushed), mu)} :
                /\ resp'.baseline = mu
                /\ resp'.inhaleThreshold = Quot(2 * mu + sigma, 2)
                /\ resp'.exhaleThreshold = Quot(2 * mu - sigma, 2)
       ELSE /\ resp'.baseline = resp.baseline
            /\ resp'.inhaleThreshold = resp.inhaleThreshold
            /\ resp'.exhaleThreshold = resp.exhaleThreshold]_vars

-----------------------------------------------------------------------------
(* RespiratoryProcessor on slow and fast breathing *)

MaxBreathCalls == 22
BreathHalfPeriods == {1000, 2500}

\* one call of processRespSample: an exhale sample (below the initial exhale
\* threshold) half a period after the last inhale sample, then an inhale sample
\* (above the initial inhale threshold) half a period later
BreathCall ==
  /\ wave.kind = "breath"
  /\ calls < MaxBreathCalls
  /\ \E d \in BreathHalfPeriods :
       LET half == IF wave.exhaled THEN wave.half ELSE d
           rawValue == IF wave.exhaled THEN 570 ELSE 450
       IN /\ clock' = ULAdd(clock, half)
          /\ resp' \in {ProcessRespSample(resp, rawValue, clock', ub) : ub \in UBOutcomes}
          /\ wave' = [wave EXCEPT !.exhaled = ~@, !.half = half]
  /\ calls' = calls + 1
  /\ UNCHANGED <<band, pinLoPlus, pinLoMinus, ecg, ecgRef, respRef, gsr, schedVars>>

InitBreath ==
  /\ clock \in StartClocks /\ SetupDone
  /\ wave = [kind |-> "breath", exhaled |-> FALSE, half |-> 0]
NextBreath == BreathCall
SpecBreath == InitBreath /\ [][NextBreath]_vars

\* C26 (as claimed): the reported breath rate is 0 or lies in 6..40.
C26_BreathRateInRange ==
  wave.kind = "breath" => getBreathRate(resp) = 0 \/ getBreathRate(resp) \in 6..40

-----------------------------------------------------------------------------
(* loop() across the wraparound of millis(), 49.7 days after power-on *)

\* 2^32 - 1000: the clock value of a pass in which all five tasks ran
WrapStart == <<65535, 64536>>

\* the processors after a session in which a lead was off throughout, the
\* respiratory sensor read 512 and the GSR sensor read 300 on every call
QuietECG == LeadOffReturn(ECGInit)
QuietResp ==
  [RespInit EXCEPT !.respBuffer = [i \in 0..(RESP_BUFFER_SIZE - 1) |-> 512],
                   !.inhaleThreshold = 512, !.exhaleThreshold = 512]
QuietGSR ==
  [GSRInit EXCEPT !.gsrBuffer = [i \in 0..(GSR_BUFFER_SIZE - 1) |-> 300],
                  !.baseline = 300, !.smoothedValue = 300,
                  !.calibrated = TRUE, !.calibrationSamples = CALIBRATION_TIME]

\* the state on return from the pass at WrapStart; no SD.open has succeeded,
\* so the file holds the header only
InitWrap ==
  /\ clock = WrapStart /\ loopNow = WrapStart
  /\ pinLoPlus = 0 /\ pinLoMinus = 1
  /\ ecg = QuietECG /\ ecgRef = ECGInit
  /\ resp = QuietResp /\ respRef = RespInit /\ gsr = QuietGSR
  /\ lastECGSample = WrapStart /\ lastRespSample = WrapStart
  /\ lastGSRSample = WrapStart /\ lastLCDUpdate = WrapStart /\ lastDataLog = WrapStart
  /\ displayMode = 0
  /\ sessionStartTime = UL(SETUP_DELAY + DEBOUNCE_DELAY)
  /\ lcd = UpdateLCD(0, QuietECG, QuietResp, QuietGSR, WrapStart, sessionStartTime)
  /\ dataFile = <<CsvHeader>>
  /\ pc = "loop"
  /\ fired = <<"ecg", "resp", "gsr", "lcd", "log">>
  /\ calls = 0
  /\ band = BandInit
  /\ wave = [kind |-> "body", ecgReads |-> 0, respReads |-> 0, gsrReads |-> 0]
NextWrap == LoopPass
SpecWrap == InitWrap /\ [][NextWrap]_vars

\* a clock value near the wraparound as a signed offset from the moment the
\* clock reads 0: negative before the wrap, non-negative after it
FromWrap(t) == IF t[1] >= 32768 THEN (t[1] - Pow16) * Pow16 + t[2] ELSE t[1] * Pow16 + t[2]

\* a task with period P and last-fire time T ran in the pass at time nw
\* exactly when P ms or more have really elapsed since T, and its last-fire
\* time became nw exactly when it ran
FiresOnTrueElapsed(task, T, Tnew, P, nw, ran) ==
  /\ Runs(ran, task) = IF FromWrap(nw) - FromWrap(T) >= P THEN 1 ELSE 0
  /\ Tnew = IF FromWrap(nw) - FromWrap(T) >= P THEN nw ELSE T

\* C28: across the wraparound of the 32-bit clock every task runs in a pass
\* exactly when at least its period has really elapsed since it last ran: it
\* fires on the first pass at or after T + P (also when T is before the wrap
\* and the pass after it), never earlier, and keeps firing after the wrap.
C28_DueTestAcrossWrap ==
  [][calls' = calls + 1
       => /\ FiresOnTrueElapsed("ecg", lastECGSample, lastECGSample', ECG_SAMPLE_INTERVAL,
                                loopNow', fired')
          /\ FiresOnTrueElapsed("resp", lastRespSample, lastRespSample',
                                RESP_SAMPLE_INTERVAL, loopNow', fired')
          /\ FiresOnTrueElapsed("gsr", lastGSRSample, lastGSRSample', GSR_SAMPLE_INTERVAL,
                                loopNow', fired')
          /\ FiresOnTrueElapsed("lcd", lastLCDUpdate, lastLCDUpdate', LCD_UPDATE_INTERVAL,
                                loopNow', fired')
          /\ FiresOnTrueElapsed("log", lastDataLog, lastDataLog', DATA_LOG_INTERVAL,
                                loopNow', fired')]_vars

\* the log task, last run 1000 ms before the wrap, ran again in the pass 203 ms
\* after it, and so did the cardiac task, which had also run before the wrap
C28_Witness ==
  /\ wave.kind = "body" /\ sessionStartTime # WrapStart
  /\ loopNow = UL(203) /\ lastDataLog = UL(203) /\ Runs(fired, "log") = 1
  /\ lastECGSample = UL(203) /\ wave.ecgReads + wave.respReads >= 3

-----------------------------------------------------------------------------
(* respiratory_band.ino: loop() with arbitrary potentiometer and sensor readings *)

BandAdjustReadings == {0, 100, 1023}
BandSensorReadings == {200, 450}

BandLoop ==
  /\ wave.kind = "band"
  /\ \E cmin, cmax, bmin, bmax \in BandAdjustReadings, cs, bs \in BandSensorReadings :
       band' = BandPass(band, cmin, cmax, cs, bmin, bmax, bs)
  /\ UNCHANGED <<clock, pinLoPlus, pinLoMinus, ecg, ecgRef, resp, respRef, gsr, schedVars,
                 calls, wave>>

InitBand ==
  /\ clock = UL(0) /\ SetupDone
  /\ wave = [kind |-> "band"]
NextBand == BandLoop
SpecBand == InitBand /\ [][NextBand]_vars

\* the LEDs of a bar that are lit, by position in the bar's LED order
Lit(LED_pins) == {i \in 0..(num_LEDs - 1) : band.pins[LED_pins[i]] = "HIGH"}

\* thresholds evenly spaced from the adjusted minimum, LED i lit exactly when
\* the reading exceeds threshold i, and a gapless bar when max >= min
BarCorrect(ADC_min, ADC_max, delta, thresholds, sensor_reading, LED_pins) ==
  /\ delta = Quot(ADC_max - ADC_min, num_LEDs + 1)
  /\ \A i \in 0..(num_LEDs - 1) :
       /\ thresholds[i] = ADC_min + (i + 1) * delta
       /\ i \in Lit(LED_pins) <=> sensor_reading > thresholds[i]
  /\ ADC_max >= ADC_min
       => \E k \in 0..num_LEDs : Lit(LED_pins) = {i \in 0..(num_LEDs - 1) : i < k}

\* C30: after every pass of loop() of respiratory_band.ino, for each sensor,
\* threshold[i] = min + (i+1) * delta with delta = (max - min) / 6 in integer
\* division, LED i is on exactly when the sensor reading is greater than
\* threshold[i], and when max >= min the lit LEDs are LED 0..k-1 for some k.
C30_LedBarThresholds ==
  wave.kind = "band" =>
    /\ BarCorrect(band.chest_ADC_min, band.chest_ADC_max, band.chest_delta,
                  band.chest_thresholds, band.chest_sensor_reading, chest_LED_pins)
    /\ BarCorrect(band.belly_ADC_min, band.belly_ADC_max, band.belly_delta,
                  band.belly_thresholds, band.belly_sensor_reading, belly_LED_pins)

\* chest limits 100 and 700 with reading 450 light LEDs 0..2 (pins 9, 10, 11);
\* the belly limits are reversed (700, 100) and reading 450 lights LEDs 2..4
C30_Witness ==
  /\ wave.kind = "band"
  /\ band.chest_ADC_min = 100 /\ band.chest_ADC_max = 700
  /\ band.chest_sensor_reading = 450 /\ Lit(chest_LED_pins) = {0, 1, 2}
  /\ band.pins[11] = "HIGH" /\ band.pins[12] = "LOW"
  /\ band.belly_ADC_min = 700 /\ band.belly_ADC_max = 100
  /\ band.belly_sensor_reading = 450 /\ Lit(belly_LED_pins) = {2, 3, 4}
====
